---- MODULE Spec2Model ----
(***************************************************************************)
(* Model of src/app.py, the Streamlit "Mental Health AI" page.             *)
(*                                                                         *)
(* Streamlit re-executes the script top to bottom on every interaction.    *)
(* One script run is modelled as the steps StartRun (API key check,        *)
(* session state, header, sidebar), Main (input tabs and the analyze       *)
(* button handler), Col2 (info cards, emergency banner) and Footer.        *)
(* st.session_state (stress_level, analysis_history) survives between      *)
(* runs; everything else is per run.                                       *)
(*                                                                         *)
(* Texts are sequences of one-character strings.  The Gemini model is the  *)
(* environment: each generate_content call either raises, returns a        *)
(* response whose .text accessor raises, or returns a response with text.  *)
(* The wording of the prompts and the selected model name do not influence *)
(* control flow and are not part of the state.                             *)
(***************************************************************************)
EXTENDS Integers, Sequences, FiniteSets, TLC

VARIABLES
    api_key,           \* GEMINI_API_KEY / GOOGLE_API_KEY is set in the environment
    pc,                \* position of the script run: "idle", "main", "col2", "footer"
    stress_level,      \* st.session_state.stress_level
    analysis_history,  \* st.session_state.analysis_history
    analysis_mode,     \* value of the sidebar radio in the current run
    user_text,         \* value of the text area in the current run
    clicked,           \* the analyze button returned True in the current run
    score_resp,        \* what the model answered to the score prompt in this run
    detail_resp,       \* what the model answered to the detailed prompt in this run
    ret,               \* what get_stress_level returned in this run
    desc,              \* what get_stress_description returned in this run
    page,              \* elements rendered by the current run, in call order
    uncaught           \* the current run was ended by an uncaught exception

vars == <<api_key, pc, stress_level, analysis_history, analysis_mode, user_text,
          clicked, score_resp, detail_resp, ret, desc, page, uncaught>>

----------------------------------------------------------------------------
(* Bounds and program constants *)

MaxHistory == 1

DefaultStress == 50

PreviewLen == 80

----------------------------------------------------------------------------
(* Characters and strings *)

Digits == {"0", "1", "2", "3", "4", "5", "6", "7", "8", "9"}

DigitVal(c) ==
    CASE c = "0" -> 0 [] c = "1" -> 1 [] c = "2" -> 2 [] c = "3" -> 3
      [] c = "4" -> 4 [] c = "5" -> 5 [] c = "6" -> 6 [] c = "7" -> 7
      [] c = "8" -> 8 [] c = "9" -> 9

Whitespace == {" ", "\t", "\n"}

RECURSIVE Repeat(_, _)
Repeat(c, n) == IF n = 0 THEN <<>> ELSE <<c>> \o Repeat(c, n - 1)

RECURSIVE LStrip(_)
LStrip(s) ==
    IF s # <<>> /\ Head(s) \in Whitespace THEN LStrip(Tail(s)) ELSE s

RECURSIVE RStrip(_)
RStrip(s) ==
    IF s # <<>> /\ s[Len(s)] \in Whitespace
    THEN RStrip(SubSeq(s, 1, Len(s) - 1))
    ELSE s

\* str.strip()
Strip(s) == RStrip(LStrip(s))

\* truth value of a str
Truthy(s) == Len(s) > 0

\* int() of a run of decimal digits
RECURSIVE PyInt(_)
PyInt(s) ==
    IF s = <<>> THEN 0
    ELSE 10 * PyInt(SubSeq(s, 1, Len(s) - 1)) + DigitVal(s[Len(s)])

Min(a, b) == IF a < b THEN a ELSE b

Max(a, b) == IF a > b THEN a ELSE b

\* re.search(r'\d+', s): the leftmost, longest run of digits
re_search_digits(s) ==
    LET starts == {i \in 1..Len(s) : s[i] \in Digits}
    IN  IF starts = {} THEN [found |-> FALSE, group |-> <<>>]
        ELSE LET i == CHOOSE k \in starts : \A m \in starts : k <= m
                 ends == {j \in i..Len(s) :
                            /\ \A k \in i..j : s[k] \in Digits
                            /\ (j = Len(s) \/ s[j + 1] \notin Digits)}
                 j == CHOOSE k \in ends : TRUE
             IN  [found |-> TRUE, group |-> SubSeq(s, i, j)]

----------------------------------------------------------------------------
(* Inputs *)

T_empty == <<>>

T_blank == <<" ", "\n">>

T_crisis == <<"i", " ", "w", "a", "n", "t", " ", "t", "o", " ", "d", "i", "e">>

T_long == Repeat("a", PreviewLen + 1)

UserTexts == {T_empty, T_blank, T_crisis, T_long}

Modes == {"Crisis Detection", "Emotional Support", "Risk Assessment"}

NoCall == [kind |-> "nocall", pre |-> <<>>, payload |-> <<>>, post |-> <<>>]

TextResp(pre, payload, post) ==
    [kind |-> "text", pre |-> pre, payload |-> payload, post |-> post]

P_scale == <<"0", " ", "t", "o", " ", "1", "0", "0", ":", " ">>

P_score == <<"s", "c", "o", "r", "e", " ">>

P_tail == <<" ", "o", "f", " ", "1", "0", "0">>

\* A response is the text pre \o payload \o post; payload is the score the model
\* states (empty when it states none), pre and post are the prose around it.
ScoreResponses ==
    { [kind |-> "raise", pre |-> <<>>, payload |-> <<>>, post |-> <<>>],
      [kind |-> "notext", pre |-> <<>>, payload |-> <<>>, post |-> <<>>],
      TextResp(<<"c", "a", "l", "m">>, <<>>, <<>>),
      TextResp(<<>>, <<"7", "5">>, <<>>),
      TextResp(<<>>, <<"1", "5", "0">>, <<>>),
      TextResp(<<>>, <<"-", "2", "0">>, <<>>),
      TextResp(P_score, <<"7", "5">>, P_tail),
      TextResp(P_scale, <<"7", "5">>, <<".">>) }

DetailResponses == {"raise", "notext", "text"}

ResponseText(resp) == resp.pre \o resp.payload \o resp.post

----------------------------------------------------------------------------
(* Helper functions of app.py *)

NoRet == [called |-> FALSE, raised |-> FALSE, none |-> FALSE, value |-> 0,
          warned |-> FALSE]

\* StressTryBody without the clamp of line 392
StressTryBody_noclamp(resp) ==
    IF resp.kind \in {"raise", "notext"}
    THEN [raised |-> TRUE, value |-> 0]
    ELSE LET match == re_search_digits(ResponseText(resp))
         IN  IF match.found
             THEN [raised |-> FALSE, value |-> PyInt(match.group)]
             ELSE [raised |-> FALSE, value |-> DefaultStress]

\* The try body of get_stress_level: generate_content, response.text,
\* re.search, int, clamp; raised when one of them raises.
StressTryBody(resp) ==
    IF resp.kind \in {"raise", "notext"}
    THEN [raised |-> TRUE, value |-> 0]
    ELSE LET match == re_search_digits(ResponseText(resp))
         IN  IF match.found
             THEN [raised |-> FALSE,
                   value |-> Min(100, Max(0, PyInt(match.group)))]
             ELSE [raised |-> FALSE, value |-> DefaultStress]

\* get_stress_level without its try/except: the exception propagates
get_stress_level_noexcept(text, resp) ==
    LET body == StressTryBody(resp)
    IN  [called |-> TRUE, raised |-> body.raised, none |-> FALSE,
         value |-> body.value, warned |-> FALSE]

\* get_stress_level whose except clause returns 0 instead of 50
get_stress_level_zero(text, resp) ==
    LET body == StressTryBody(resp)
    IN  IF body.raised
        THEN [called |-> TRUE, raised |-> FALSE, none |-> FALSE,
              value |-> 0, warned |-> TRUE]
        ELSE [called |-> TRUE, raised |-> FALSE, none |-> FALSE,
              value |-> body.value, warned |-> FALSE]

get_stress_level(text, resp) ==
    LET body == StressTryBody(resp)
    IN  IF body.raised
        THEN [called |-> TRUE, raised |-> FALSE, none |-> FALSE,
              value |-> DefaultStress, warned |-> TRUE]
        ELSE [called |-> TRUE, raised |-> FALSE, none |-> FALSE,
              value |-> body.value, warned |-> FALSE]

\* get_stress_description with <= in place of <
get_stress_description_le(level) ==
    IF level <= 25 THEN "Minimal"
    ELSE IF level <= 50 THEN "Mild"
    ELSE IF level <= 75 THEN "Moderate"
    ELSE "High"

get_stress_description(level) ==
    IF level < 25 THEN "Minimal"
    ELSE IF level < 50 THEN "Mild"
    ELSE IF level < 75 THEN "Moderate"
    ELSE "High"

----------------------------------------------------------------------------
(* The analyze button handler *)

\* The emptiness test without strip()
NonBlank_nostrip(text) == Truthy(text)

\* user_text.strip() is truthy
NonBlank(text) == Truthy(Strip(text))

\* user_text[:80] + "..." if len(user_text) > 80 else user_text
input_preview(text) ==
    IF Len(text) > PreviewLen
    THEN SubSeq(text, 1, PreviewLen) \o <<".", ".", ".">>
    ELSE text

HistoryEntry(mode, text, level) ==
    [mode |-> mode, input_preview |-> input_preview(text), stress_level |-> level]

\* The try body of step 2 with the history append moved before the call
DetailTryBody_appendfirst(history, mode, text, level, dresp) ==
    LET appended == Append(history, HistoryEntry(mode, text, level))
    IN  IF dresp = "raise"
        THEN [raised |-> TRUE, history |-> appended, page |-> <<>>]
        ELSE IF dresp = "notext"
        THEN [raised |-> TRUE, history |-> appended,
              page |-> <<"results_header">>]
        ELSE [raised |-> FALSE, history |-> appended,
              page |-> <<"results_header", "analysis", "action_buttons">>]

\* The try body of step 2: generate_content, the history append, the display
\* of response.text and the action buttons.  The nested buttons return False
\* in every run in which the analyze button returned True, so st.rerun() is
\* not reached.
DetailTryBody(history, mode, text, level, dresp) ==
    IF dresp = "raise"
    THEN [raised |-> TRUE, history |-> history, page |-> <<>>]
    ELSE LET appended == Append(history, HistoryEntry(mode, text, level))
         IN  IF dresp = "notext"
             THEN [raised |-> TRUE, history |-> appended,
                   page |-> <<"results_header">>]
             ELSE [raised |-> FALSE, history |-> appended,
                   page |-> <<"results_header", "analysis", "action_buttons">>]

\* Step 2 without its except clause: the exception propagates
DetailedAnalysis_noexcept(history, mode, text, level, dresp) ==
    DetailTryBody(history, mode, text, level, dresp)

\* Step 2 with its except Exception clause
DetailedAnalysis(history, mode, text, level, dresp) ==
    LET body == DetailTryBody(history, mode, text, level, dresp)
    IN  IF body.raised
        THEN [raised |-> FALSE, history |-> body.history,
              page |-> body.page \o <<"api_error", "troubleshooting">>]
        ELSE [raised |-> FALSE, history |-> body.history, page |-> body.page]

\* Step 1 storing the mean of the new score and the level left in the session
ScoreStep_smoothed(session, text, sresp) ==
    LET r == get_stress_level(text, sresp)
        v == (r.value + session.stress_level) \div 2
    IN  [raised |-> FALSE, ret |-> [r EXCEPT !.value = v], stress_level |-> v,
         desc |-> get_stress_description(v),
         page |-> (IF r.warned THEN <<"score_warning">> ELSE <<>>)
                  \o <<"stress_meter">>]

\* Step 1 without the store of line 521
ScoreStep_nostore(session, text, sresp) ==
    LET r == get_stress_level(text, sresp)
    IN  [raised |-> FALSE, ret |-> r, stress_level |-> session.stress_level,
         desc |-> get_stress_description(r.value),
         page |-> (IF r.warned THEN <<"score_warning">> ELSE <<>>)
                  \o <<"stress_meter">>]

\* Step 1: the score, its store into the session and the stress meter
ScoreStep(session, text, sresp) ==
    LET r == get_stress_level(text, sresp)
    IN  IF r.raised
        THEN [raised |-> TRUE, ret |-> r, stress_level |-> session.stress_level,
              desc |-> "", page |-> <<>>]
        ELSE [raised |-> FALSE, ret |-> r, stress_level |-> r.value,
              desc |-> get_stress_description(r.value),
              page |-> (IF r.warned THEN <<"score_warning">> ELSE <<>>)
                       \o <<"stress_meter">>]

Unhandled(session, click, text, sresp, dresp, r, pg) ==
    [stress_level |-> session.stress_level,
     analysis_history |-> session.analysis_history,
     score_resp |-> sresp, detail_resp |-> dresp, ret |-> r, desc |-> "",
     page |-> pg \o <<"traceback">>, uncaught |-> TRUE]

\* Input tabs and the body of  if st.button("ANALYZE & GET SUPPORT")
AnalyzeHandler(session, click, text, mode, sresp, dresp) ==
    IF ~click
    THEN [stress_level |-> session.stress_level,
          analysis_history |-> session.analysis_history,
          score_resp |-> NoCall, detail_resp |-> "nocall", ret |-> NoRet,
          desc |-> "", page |-> <<"input_tabs">>, uncaught |-> FALSE]
    ELSE IF ~NonBlank(text)
    THEN [stress_level |-> session.stress_level,
          analysis_history |-> session.analysis_history,
          score_resp |-> NoCall, detail_resp |-> "nocall", ret |-> NoRet,
          desc |-> "", page |-> <<"input_tabs", "empty_warning">>,
          uncaught |-> FALSE]
    ELSE LET s1 == ScoreStep(session, text, sresp)
         IN  IF s1.raised
             THEN Unhandled(session, click, text, sresp, "nocall", s1.ret,
                            <<"input_tabs">>)
             ELSE LET s2 == DetailedAnalysis(session.analysis_history, mode, text,
                                             s1.ret.value, dresp)
                  IN  IF s2.raised
                      THEN Unhandled([stress_level |-> s1.stress_level,
                                      analysis_history |-> s2.history],
                                     click, text, sresp, dresp, s1.ret,
                                     <<"input_tabs">> \o s1.page \o s2.page)
                      ELSE [stress_level |-> s1.stress_level,
                            analysis_history |-> s2.history,
                            score_resp |-> sresp, detail_resp |-> dresp,
                            ret |-> s1.ret, desc |-> s1.desc,
                            page |-> <<"input_tabs">> \o s1.page \o s2.page,
                            uncaught |-> FALSE]

----------------------------------------------------------------------------
(* The script run *)

Session == [stress_level |-> stress_level, analysis_history |-> analysis_history]

FreshSession == [stress_level |-> 0, analysis_history |-> <<>>]

Init ==
    /\ api_key \in BOOLEAN
    /\ pc = "idle"
    /\ stress_level = FreshSession.stress_level
    /\ analysis_history = FreshSession.analysis_history
    /\ analysis_mode = "Crisis Detection"
    /\ user_text = <<>>
    /\ clicked = FALSE
    /\ score_resp = NoCall
    /\ detail_resp = "nocall"
    /\ ret = NoRet
    /\ desc = ""
    /\ page = <<>>
    /\ uncaught = FALSE

\* A run without an API key: st.error, st.stop()
StartNoKey ==
    /\ pc = "idle"
    /\ ~api_key
    /\ page' = <<"key_error">>
    /\ clicked' = FALSE
    /\ score_resp' = NoCall
    /\ detail_resp' = "nocall"
    /\ ret' = NoRet
    /\ desc' = ""
    /\ uncaught' = FALSE
    /\ UNCHANGED <<api_key, pc, stress_level, analysis_history, analysis_mode,
                   user_text>>

\* A run with an API key: configuration, session state, header, sidebar
StartRun ==
    /\ pc = "idle"
    /\ api_key
    /\ \E mode \in Modes : analysis_mode' = mode
    /\ page' = <<"header", "sidebar_helplines">>
                \o (IF analysis_history # <<>> THEN <<"session_stats">> ELSE <<>>)
    /\ pc' = "main"
    /\ clicked' = FALSE
    /\ score_resp' = NoCall
    /\ detail_resp' = "nocall"
    /\ ret' = NoRet
    /\ desc' = ""
    /\ uncaught' = FALSE
    /\ UNCHANGED <<api_key, stress_level, analysis_history, user_text>>

\* Column 1: the input tabs and the analyze button handler.  The model is
\* called only by a click on non-blank text; such runs stop once the history
\* holds MaxHistory entries.
Main ==
    /\ pc = "main"
    /\ \E text \in UserTexts, click \in BOOLEAN :
          \E sresp \in (IF click /\ NonBlank(text)
                        THEN ScoreResponses ELSE {NoCall}),
             dresp \in (IF click /\ NonBlank(text)
                        THEN DetailResponses ELSE {"nocall"}) :
             /\ (click /\ NonBlank(text)) => Len(analysis_history) < MaxHistory
             /\ LET r == AnalyzeHandler(Session, click, text, analysis_mode,
                                        sresp, dresp)
                IN  /\ user_text' = text
                    /\ clicked' = click
                    /\ stress_level' = r.stress_level
                    /\ analysis_history' = r.analysis_history
                    /\ score_resp' = r.score_resp
                    /\ detail_resp' = r.detail_resp
                    /\ ret' = r.ret
                    /\ desc' = r.desc
                    /\ page' = page \o r.page
                    /\ uncaught' = r.uncaught
                    /\ pc' = IF r.uncaught THEN "idle" ELSE "col2"
    /\ UNCHANGED <<api_key, analysis_mode>>

\* Column 2: the info cards and the emergency banner
Col2 ==
    /\ pc = "col2"
    /\ page' = page \o <<"info_cards", "emergency_banner">>
    /\ pc' = "footer"
    /\ UNCHANGED <<api_key, stress_level, analysis_history, analysis_mode,
                   user_text, clicked, score_resp, detail_resp, ret, desc,
                   uncaught>>

\* The footer with the disclaimer; the run ends
Footer ==
    /\ pc = "footer"
    /\ page' = page \o <<"disclaimer">>
    /\ pc' = "idle"
    /\ UNCHANGED <<api_key, stress_level, analysis_history, analysis_mode,
                   user_text, clicked, score_resp, detail_resp, ret, desc,
                   uncaught>>

Next == StartNoKey \/ StartRun \/ Main \/ Col2 \/ Footer

Spec == Init /\ [][Next]_vars

\* The steps of a started script run
RunStep == Main \/ Col2 \/ Footer

\* A started script run executes to its end; nothing obliges the user to
\* start another
FairSpec == Spec /\ WF_vars(RunStep)

\* Column 1 as in Main, with the cap on the history applied only to the
\* runs that append: an analysis whose detailed call raises appends nothing,
\* so it can run on a full history too
MainRetry ==
    /\ pc = "main"
    /\ \E text \in UserTexts, click \in BOOLEAN :
          \E sresp \in (IF click /\ NonBlank(text)
                        THEN ScoreResponses ELSE {NoCall}),
             dresp \in (IF click /\ NonBlank(text)
                        THEN DetailResponses ELSE {"nocall"}) :
             /\ (click /\ NonBlank(text) /\ dresp # "raise")
                   => Len(analysis_history) < MaxHistory
             /\ LET r == AnalyzeHandler(Session, click, text, analysis_mode,
                                        sresp, dresp)
                IN  /\ user_text' = text
                    /\ clicked' = click
                    /\ stress_level' = r.stress_level
                    /\ analysis_history' = r.analysis_history
                    /\ score_resp' = r.score_resp
                    /\ detail_resp' = r.detail_resp
                    /\ ret' = r.ret
                    /\ desc' = r.desc
                    /\ page' = page \o r.page
                    /\ uncaught' = r.uncaught
                    /\ pc' = IF r.uncaught THEN "idle" ELSE "col2"
    /\ UNCHANGED <<api_key, analysis_mode>>

NextRetry == StartNoKey \/ StartRun \/ MainRetry \/ Col2 \/ Footer

\* As Spec, with the failing analyses of a full history as well
RetrySpec == Init /\ [][NextRetry]_vars

----------------------------------------------------------------------------
(* Vocabulary of the claims *)

Elems(seq) == {seq[i] : i \in 1..Len(seq)}

\* get_stress_level was called in the current run and the handler has ended
Scored == ret.called /\ pc # "main"

HasDigit(s) == \E i \in 1..Len(s) : s[i] \in Digits

\* The score call failed, or its response holds no number
ScoreCallFailed ==
    /\ Scored
    /\ \/ score_resp.kind \in {"raise", "notext"}
       \/ score_resp.kind = "text" /\ ~HasDigit(ResponseText(score_resp))

SeverityBands ==
    { [name |-> "Minimal", lo |-> 0, hi |-> 24],
      [name |-> "Mild", lo |-> 25, hi |-> 49],
      [name |-> "Moderate", lo |-> 50, hi |-> 74],
      [name |-> "High", lo |-> 75, hi |-> 100] }

BandsOf(score) == {b \in SeverityBands : b.lo <= score /\ score <= b.hi}

----------------------------------------------------------------------------
(* Claims *)

\* C1: for every integer score in 0..100 exactly one severity band applies
\* and get_stress_description returns its description: Minimal below 25, Mild
\* for 25..49, Moderate for 50..74, High from 75 on; the description shown by
\* an analysis is the band of the score it stored.
C1_SeverityBands ==
    /\ \A score \in 0..100 :
          /\ Cardinality(BandsOf(score)) = 1
          /\ \A b \in BandsOf(score) : get_stress_description(score) = b.name
    /\ Scored => \A b \in BandsOf(stress_level) : desc = b.name

C1_Witness ==
    /\ Scored
    /\ stress_level = 75
    /\ desc = "High"

\* C2: the score returned by get_stress_level, the stored
\* st.session_state.stress_level and the stress_level of every entry of
\* analysis_history are integers in 0..100, in every reachable state.
C2_ScoreBounds ==
    /\ stress_level \in 0..100
    /\ \A i \in 1..Len(analysis_history) :
          analysis_history[i].stress_level \in 0..100
    /\ ret.called => (~ret.none /\ ret.value \in 0..100)

C2_Witness ==
    /\ Scored
    /\ score_resp.payload = <<"1", "5", "0">>
    /\ stress_level = 100
    /\ analysis_history # <<>>
    /\ analysis_history[Len(analysis_history)].stress_level = 100

\* C3 as stated: when the score call fails or its response holds no number,
\* get_stress_level returns None rather than a numeric score.
C3_ReturnsNone == ScoreCallFailed => ret.none

\* C3 as amended: when the score call fails or its response holds no number,
\* get_stress_level returns the numeric default 50, which the analysis stores
\* as the stress level; it never returns None.
C3_ReturnsDefault ==
    ScoreCallFailed =>
        /\ ~ret.none
        /\ ret.value = DefaultStress
        /\ stress_level = DefaultStress
        /\ desc = "Moderate"

C3_Witness ==
    /\ ScoreCallFailed
    /\ score_resp.kind = "raise"
    /\ ret.warned
    /\ stress_level = DefaultStress

\* Substring test
Contains(s, p) ==
    \E i \in 1..(Len(s) - Len(p) + 1) : SubSeq(s, i, i + Len(p) - 1) = p

CrisisPhrases ==
    { <<"i", " ", "w", "a", "n", "t", " ", "t", "o", " ", "d", "i", "e">>,
      <<"k", "i", "l", "l", " ", "m", "y", "s", "e", "l", "f">>,
      <<"s", "u", "i", "c", "i", "d", "e">>,
      <<"e", "n", "d", " ", "m", "y", " ", "l", "i", "f", "e">> }

HasCrisisPhrase(text) == \E p \in CrisisPhrases : Contains(text, p)

\* C4: an analysis of a text that contains a crisis phrase yields a score of
\* at least 80 and the High band, whatever the model answers and also when
\* the model call fails.
C4_CrisisFloor ==
    (Scored /\ HasCrisisPhrase(user_text)) =>
        (ret.value >= 80 /\ stress_level >= 80 /\ desc = "High")

\* The analysis outputs a run can render
AnalysisOutput ==
    {"empty_warning", "score_warning", "stress_meter", "results_header",
     "analysis", "action_buttons", "api_error", "troubleshooting"}

\* C5: no exception propagates out of an analyze action: whatever the score
\* call and the detailed call do, get_stress_level returns a value, the run is
\* not ended by an exception, and a failure of the detailed call ends in the
\* displayed error.
C5_NoUncaught ==
    /\ ~uncaught
    /\ (pc # "main" /\ clicked /\ user_text \notin {T_empty, T_blank}) =>
          /\ ret.called /\ ~ret.raised /\ ~ret.none
          /\ "stress_meter" \in Elems(page)
          /\ detail_resp \in {"raise", "notext"} =>
                {"api_error", "troubleshooting"} \subseteq Elems(page)
          /\ detail_resp = "text" => "analysis" \in Elems(page)

C5_Witness ==
    /\ pc = "col2"
    /\ score_resp.kind = "raise"
    /\ detail_resp = "raise"
    /\ ret.value = DefaultStress
    /\ "api_error" \in Elems(page)

\* The integer a payload states: digits with an optional leading minus sign
IsUnsigned(s) == s # <<>> /\ \A i \in 1..Len(s) : s[i] \in Digits

IsSigned(s) == s # <<>> /\ Head(s) = "-" /\ IsUnsigned(Tail(s))

StatedValue(s) == IF IsSigned(s) THEN 0 - PyInt(Tail(s)) ELSE PyInt(s)

NearestBound(v) == IF v > 100 THEN 100 ELSE IF v < 0 THEN 0 ELSE v

\* C6: a score the response states outside 0..100 is clamped to the nearest
\* bound: above 100 yields 100, below 0 (a response of "-20") yields 0.
C6_ClampsStatedValue ==
    ( /\ Scored
      /\ score_resp.kind = "text"
      /\ score_resp.pre = <<>>
      /\ score_resp.post = <<>>
      /\ (IsUnsigned(score_resp.payload) \/ IsSigned(score_resp.payload)) ) =>
        ret.value = NearestBound(StatedValue(score_resp.payload))

\* C7: when prose precedes and follows the score payload, get_stress_level
\* returns the score of the payload, not a number of the prose, and does not
\* raise.
C7_PayloadScore ==
    ( /\ Scored
      /\ score_resp.kind = "text"
      /\ score_resp.pre # <<>>
      /\ score_resp.post # <<>>
      /\ IsUnsigned(score_resp.payload) ) =>
        ( /\ ~ret.raised
          /\ ret.value = NearestBound(StatedValue(score_resp.payload)) )

\* Empty or whitespace-only text
IsBlank(text) == \A i \in 1..Len(text) : text[i] \in Whitespace

\* C8: an analyze action on empty or whitespace-only text calls the model
\* not at all, shows the warning and leaves st.session_state.stress_level and
\* st.session_state.analysis_history as they were.
C8_BlankRejected ==
    [][ (pc = "main" /\ clicked' /\ IsBlank(user_text')) =>
           /\ stress_level' = stress_level
           /\ analysis_history' = analysis_history
           /\ ~ret'.called
           /\ score_resp' = NoCall
           /\ detail_resp' = "nocall"
           /\ "empty_warning" \in Elems(page')
           /\ "stress_meter" \notin Elems(page') ]_vars

C8_Witness ==
    /\ pc = "col2"
    /\ clicked
    /\ user_text = T_blank
    /\ stress_level # 0
    /\ ~ret.called
    /\ "empty_warning" \in Elems(page)

\* The page ends with the emergency banner and the disclaimer, both after
\* every analysis output
EndsWithHelplineAndDisclaimer ==
    /\ Len(page) >= 2
    /\ page[Len(page) - 1] = "emergency_banner"
    /\ page[Len(page)] = "disclaimer"
    /\ \A i \in 1..Len(page) : page[i] \in AnalysisOutput => i < Len(page) - 1

\* C9: every run of the page that starts with a configured API key
\* eventually renders the emergency banner with the KIRAN helpline number and
\* the disclaimer, after the analysis output, whatever the analyze outcome.
C9_DisclaimerRendered ==
    (pc = "main") ~> (pc = "idle" /\ EndsWithHelplineAndDisclaimer)

C9_Witness ==
    /\ pc = "idle"
    /\ detail_resp = "raise"
    /\ "api_error" \in Elems(page)
    /\ EndsWithHelplineAndDisclaimer

\* C10: the score and the description an analysis produces depend only on
\* its text and the model's response: in every session state a run can reach
\* the handler in, it produces the score and the description it produces in
\* a fresh session.
C10_Independent ==
    pc = "main" =>
    \A text \in UserTexts, sresp \in ScoreResponses, dresp \in DetailResponses :
        LET here == AnalyzeHandler(Session, TRUE, text, analysis_mode, sresp, dresp)
            fresh == AnalyzeHandler(FreshSession, TRUE, text, analysis_mode,
                                    sresp, dresp)
        IN  /\ here.ret = fresh.ret
            /\ here.desc = fresh.desc
            /\ NonBlank(text) => here.stress_level = fresh.stress_level

C10_Witness ==
    /\ pc = "main"
    /\ stress_level = 100
    /\ analysis_history # <<>>

\* h extends g by the entries it already had, unchanged and in order
IsPrefix(g, h) == Len(g) <= Len(h) /\ SubSeq(h, 1, Len(g)) = g

LastEntryMatches(history, level) ==
    history # <<>> => history[Len(history)].stress_level = level

\* C12: within one analyze action the score step precedes the detailed
\* step: the action stores its score in st.session_state.stress_level
\* whatever the detailed call does; when the detailed call raises,
\* analysis_history is unchanged, so the last entry keeps the level of an
\* earlier analysis and matches the stored level only if the new score
\* happens to equal it; after a successful analysis the last entry's
\* stress_level equals the stored level.
C12_ScoreBeforeDetail ==
    [][ (pc = "main" /\ clicked' /\ ~IsBlank(user_text')) =>
           /\ ret'.called
           /\ stress_level' = ret'.value
           /\ "stress_meter" \in Elems(page')
           /\ detail_resp' = "raise" =>
                 /\ analysis_history' = analysis_history
                 /\ "api_error" \in Elems(page')
                 /\ LastEntryMatches(analysis_history', stress_level')
                       <=> LastEntryMatches(analysis_history, ret'.value)
           /\ detail_resp' = "text" =>
                 /\ analysis_history' # <<>>
                 /\ LastEntryMatches(analysis_history', stress_level') ]_vars

C12_Witness ==
    /\ pc = "col2"
    /\ detail_resp = "raise"
    /\ ret.called
    /\ stress_level = ret.value
    /\ analysis_history # <<>>
    /\ ~LastEntryMatches(analysis_history, stress_level)

====
